---- MODULE Spec2Model ----
(***************************************************************************)
(* The embedding-indexing scheduler of AppFlowy-Cloud:                     *)
(*   services/appflowy-collaborate/src/indexer/indexer_scheduler.rs        *)
(*   services/appflowy-collaborate/src/indexer/provider.rs                 *)
(*                                                                         *)
(* The model has the registry (IndexerProvider), the three entry points of *)
(* IndexerScheduler (index_encoded_collab_one, index_encoded_collabs,      *)
(* index_collab), the catch-up sweep started by IndexerScheduler::new, the *)
(* bounded pool `threads`, the global rayon pool the closures are spawned  *)
(* on, the read/write lock of the live collab and the upsert calls.        *)
(***************************************************************************)
EXTENDS Integers, Sequences, FiniteSets, TLC

\* ------------------------------------------------------------------ bounds
\* Number of caller slots (each slot makes one call of one entry point).
MaxCalls == 2
\* Longest batch handed to index_encoded_collabs.
MaxBatch == 2
\* Longest listing returned by get_collabs_without_embeddings.
MaxListing == 2
\* Largest tokens_consumed the embedding service reports.
MaxTokens == 1
\* APPFLOWY_INDEXER_SCHEDULER_NUM_THREAD: workers of the pool `threads`.
NumThread == 1

Calls == 1 .. MaxCalls

\* ------------------------------------------------------- Option and Result
None == [tag |-> "None"]
Some(v) == [tag |-> "Some", val |-> v]
Ok(v) == [tag |-> "Ok", val |-> v]
Err(e) == [tag |-> "Err", err |-> e]
\* A closure that unwinds instead of returning a value, and one that returns v.
Panic == [tag |-> "Panic"]
Returned(v) == [tag |-> "Returned", val |-> v]

IsNone(o) == o.tag = "None"
IsSome(o) == o.tag = "Some"
IsOk(r) == r.tag = "Ok"
IsErr(r) == r.tag = "Err"
IsPanic(r) == r.tag = "Panic"

\* ------------------------------------------------------------ input values
\* collab_entity::CollabType, the closed set matched in get_unindexed_collabs.
CollabTypes ==
  {"Document", "Database", "WorkspaceDatabase", "Folder", "DatabaseRow",
   "UserAwareness", "Unknown"}

\* The workspace id strings callers pass: a well-formed uuid and a malformed one.
WorkspaceIdStrings == {"w1", "not-a-uuid"}

\* A parse that accepts every string.
Uuid_parse_str_lenient(s) == Ok(s)

\* Uuid::parse_str
Uuid_parse_str(s) == IF s = "not-a-uuid" THEN Err("InvalidUuid") ELSE Ok(s)

\* The byte payloads of the documents: what the bytes decode to.
\*   garbage  : EncodedCollab::decode_from_bytes fails
\*   badstate : decodes, Collab::new_with_source fails
\*   notext   : a collab whose content cannot be extracted
\*   blank    : a collab with no indexable text
\*   text     : a collab with one content chunk
Payloads == {"garbage", "badstate", "notext", "blank", "text"}

\* IndexedCollab { object_id, collab_type, encoded_collab }
IndexedCollab(oid, type, bytes) ==
  [object_id |-> oid, collab_type |-> type, encoded_collab |-> bytes]

\* The documents the callers submit.
IndexedCollabs ==
  { IndexedCollab("o1", "Document", "text"),
    IndexedCollab("o2", "Document", "blank"),
    IndexedCollab("o3", "Folder", "text"),
    IndexedCollab("o4", "Document", "garbage"),
    IndexedCollab("o5", "Document", "badstate"),
    IndexedCollab("o6", "Document", "notext"),
    IndexedCollab("o7", "Document", "text") }

RECURSIVE SeqsUpTo(_, _)
SeqsUpTo(S, n) ==
  IF n = 0 THEN {<< >>}
  ELSE LET shorter == SeqsUpTo(S, n - 1) IN
       shorter \cup { Append(s, x) : s \in { t \in shorter : Len(t) = n - 1 }, x \in S }

\* The outcomes of one call of the embedding service.
AiOutcomes ==
  { [tag |-> "ok", tokens |-> t] : t \in 0 .. MaxTokens }
    \cup { [tag |-> "err", tokens |-> 0], [tag |-> "panic", tokens |-> 0] }
\* The outcome handed to a step that does not reach the embedding service.
NoAi == [tag |-> "err", tokens |-> 0]

\* The outcomes of one upsert_collab_embeddings call.
UpsertOutcomes == {"ok", "err"}

\* ------------------------------------------------- collaborators (decoding)
\* EncodedCollab::decode_from_bytes
decode_from_bytes(bytes) ==
  IF bytes = "garbage" THEN Err("decode") ELSE Ok([doc_state |-> bytes])

\* Collab::new_with_source(CollabOrigin::Empty, object_id, DocStateV1(doc_state), ..)
new_with_source(object_id, doc_state) ==
  IF doc_state = "badstate" THEN Err("collab")
  ELSE Ok([object_id |-> object_id, state |-> doc_state])

\* AFCollabEmbeddedContent: one content chunk, tied to its owning object.
Chunk(object_id) == [object_id |-> object_id, content |-> "text"]

\* Indexer::create_embedded_content
create_embedded_content(collab) ==
  IF collab.state = "notext" THEN Err("extract")
  ELSE IF collab.state = "blank" THEN Ok(<< >>)
  ELSE Ok(<< Chunk(collab.object_id) >>)

\* Indexer::embed: none for empty content, else the service's answer.
embed(params, ai) ==
  IF params = << >> THEN Ok(None)
  ELSE IF ai.tag = "panic" THEN Panic
  ELSE IF ai.tag = "err" THEN Err("embed")
  ELSE Ok(Some([tokens_consumed |-> ai.tokens, params |-> params]))

\* ThreadPoolNoAbort::install: a panic of the job is contained by the pool and
\* comes back as the typed failure CatchedPanic.
install(op) == IF IsPanic(op) THEN Err("CatchedPanic") ELSE Ok(op.val)

\* A pool embed that answers for empty content as for any other content.
embed_in_thread_pool_of_empty_content(params, ai) ==
  IF params = << >> THEN Ok(Some([tokens_consumed |-> 0, params |-> params]))
  ELSE LET e == embed(params, ai)
           r == install(IF IsPanic(e) THEN Panic ELSE Returned(e)) IN
       IF IsErr(r) THEN r ELSE r.val

\* Indexer::embed_in_thread_pool: embed on the pool `threads`.
embed_in_thread_pool(params, ai) ==
  IF params = << >> THEN Ok(None)
  ELSE LET e == embed(params, ai)
           r == install(IF IsPanic(e) THEN Panic ELSE Returned(e)) IN
       IF IsErr(r) THEN r ELSE r.val

\* ------------------------------------------------------------------- state
VARIABLES
  indexer_cache,  \* IndexerProvider.indexer_cache: collab type -> indexer
  call,           \* the caller slots: each call's position, arguments and result
  readers,        \* the calls holding a read guard of the live collab
  writer,         \* whether another task holds the write guard of the live collab
  busy,           \* the workers of `threads` that are executing a job
  sweep,          \* the catch-up task spawned by IndexerScheduler::new
  process,        \* "running", or "aborted" once a panic has aborted the process
  panic_handler,  \* what the global rayon pool does with a panic of a spawned closure
  settings,       \* the workspace settings rows of the database, by workspace
  gate            \* the last can_index_workspace call: its arguments and result

vars ==
  << indexer_cache, call, readers, writer, busy, sweep, process, panic_handler,
     settings, gate >>

\* ---------------------------------------------------------------- registry
\* IndexerProvider::new: APPFLOWY_INDEXER_ENABLED decides whether the cache
\* holds the document indexer or nothing.
IndexerProvider_new(enabled) ==
  IF enabled THEN [t \in {"Document"} |-> "DocumentIndexer"]
  ELSE [t \in {} |-> "DocumentIndexer"]

\* A lookup that falls back to a document indexer the cache does not hold.
indexer_for_with_fallback(collab_type) ==
  IF collab_type \in DOMAIN indexer_cache THEN Some(indexer_cache[collab_type])
  ELSE IF collab_type = "Document" THEN Some("DocumentIndexer")
  ELSE None

\* IndexerProvider::indexer_for
indexer_for(collab_type) ==
  IF collab_type \in DOMAIN indexer_cache
  THEN Some(indexer_cache[collab_type])
  ELSE None

\* ----------------------------------------------------------- process_collab
\* The same steps without the indexer lookup: every collab type is embedded.
extract_params_without_lookup(indexed_collab) ==
  LET encode_collab == decode_from_bytes(indexed_collab.encoded_collab) IN
  IF IsErr(encode_collab) THEN encode_collab
  ELSE LET collab == new_with_source(indexed_collab.object_id,
                                     encode_collab.val.doc_state) IN
    IF IsErr(collab) THEN collab
    ELSE create_embedded_content(collab.val)

\* process_collab up to the call of embed: the indexer lookup, the two decoding
\* steps and the content extraction, each ending the job with None on failure.
extract_params(indexed_collab) ==
  IF IsNone(indexer_for(indexed_collab.collab_type)) THEN Err("NoIndexer")
  ELSE LET encode_collab == decode_from_bytes(indexed_collab.encoded_collab) IN
    IF IsErr(encode_collab) THEN encode_collab
    ELSE LET collab == new_with_source(indexed_collab.object_id,
                                       encode_collab.val.doc_state) IN
      IF IsErr(collab) THEN collab
      ELSE create_embedded_content(collab.val)

\* process_collab: Some((tokens_consumed, params)), None, or the panic of embed.
process_collab(indexed_collab, ai) ==
  LET params == extract_params(indexed_collab) IN
  IF IsErr(params) THEN None
  ELSE LET embeddings == embed(params.val, ai) IN
    IF IsPanic(embeddings) THEN Panic
    ELSE IF IsErr(embeddings) THEN None
    ELSE IF IsNone(embeddings.val) THEN None
    ELSE Some([tokens_used |-> embeddings.val.val.tokens_consumed,
               content |-> embeddings.val.val.params])

\* Whether process_collab reaches the embedding service for this document.
ReachesService(indexed_collab) ==
  LET params == extract_params(indexed_collab) IN
  IsOk(params) /\ params.val # << >>

\* The terminal state of a job that ends before the embedding service:
\* unsupported type and empty content are skips, the rest are failures.
EarlyTerminal(indexed_collab) ==
  LET params == extract_params(indexed_collab) IN
  IF IsErr(params) /\ params.err = "NoIndexer" THEN "Skipped"
  ELSE IF IsErr(params) THEN "Failed"
  ELSE "Skipped"

\* ------------------------------------------------------- workspace gate
\* The workspaces with a well-formed id.
Workspaces == {"w1", "w2"}

\* The settings a workspace can have: no row, or a row with its flag.
SettingsRows ==
  {None} \cup { Some([disable_search_indexing |-> b]) : b \in BOOLEAN }

\* select_workspace_settings(&pg_pool, &uuid).await: the row, or a database error.
select_workspace_settings(uuid, db) ==
  IF db = "err" THEN Err("db") ELSE Ok(settings[uuid])

\* A match that takes a missing row for an opt-out.
match_settings_absent_disables(row) ==
  IF IsNone(row) THEN Ok(FALSE) ELSE Ok(~row.val.disable_search_indexing)

\* The match on the settings: no row allows indexing, a row allows it unless
\* it disables search indexing.
match_settings(row) ==
  IF IsNone(row) THEN Ok(TRUE) ELSE Ok(~row.val.disable_search_indexing)

\* A gate that allows indexing when the settings cannot be read.
can_index_workspace_open_on_error(workspace_id, db) ==
  LET uuid == Uuid_parse_str(workspace_id) IN
  IF IsErr(uuid) THEN uuid
  ELSE LET row == select_workspace_settings(uuid.val, db) IN
       IF IsErr(row) THEN Ok(TRUE) ELSE match_settings(row.val)

\* IndexerScheduler::can_index_workspace
can_index_workspace(workspace_id, db) ==
  LET uuid == Uuid_parse_str(workspace_id) IN
  IF IsErr(uuid) THEN uuid
  ELSE LET row == select_workspace_settings(uuid.val, db) IN
       IF IsErr(row) THEN row ELSE match_settings(row.val)

\* IndexerProvider::can_index_workspace
IndexerProvider_can_index_workspace(workspace_id, db) ==
  LET uuid == Uuid_parse_str(workspace_id) IN
  IF IsErr(uuid) THEN uuid
  ELSE LET row == select_workspace_settings(uuid.val, db) IN
       IF IsErr(row) THEN row
       ELSE IF IsNone(row.val) THEN Ok(TRUE)
       ELSE Ok(~row.val.val.disable_search_indexing)

\* No can_index_workspace call was made yet.
\*   row : the settings row the workspace had when the call was made
NoGate ==
  [on |-> "none", workspace_id |-> "none", db |-> "ok", row |-> None, ret |-> None]

\* A caller asks the scheduler or the provider whether a workspace may be indexed.
gate_call(on, workspace_id, db) ==
  /\ process = "running"
  /\ gate' = [on |-> on, workspace_id |-> workspace_id, db |-> db,
              row |-> IF workspace_id \in Workspaces THEN settings[workspace_id]
                      ELSE None,
              ret |-> IF on = "scheduler"
                      THEN can_index_workspace(workspace_id, db)
                      ELSE IndexerProvider_can_index_workspace(workspace_id, db)]
  /\ UNCHANGED << indexer_cache, call, readers, writer, busy, sweep, process,
                  panic_handler, settings >>

\* A write of the settings that takes the indexers out of the registry when
\* the workspace opts out.
upsert_workspace_settings_deregistering(w, row) ==
  /\ process = "running"
  /\ settings[w] # row
  /\ settings' = [settings EXCEPT ![w] = row]
  /\ indexer_cache' =
       IF row = Some([disable_search_indexing |-> TRUE])
       THEN IndexerProvider_new(FALSE) ELSE indexer_cache
  /\ UNCHANGED << call, readers, writer, busy, sweep, process, panic_handler, gate >>

\* Another component writes the settings row of a workspace.
upsert_workspace_settings(w, row) ==
  /\ process = "running"
  /\ settings[w] # row
  /\ settings' = [settings EXCEPT ![w] = row]
  /\ UNCHANGED << indexer_cache, call, readers, writer, busy, sweep, process,
                  panic_handler, gate >>

\* ------------------------------------------------------------------- calls
\* The states of a oneshot channel besides a sent value: nothing sent yet, and
\* the sender dropped without sending.
Unset == [tag |-> "Unset"]
Dropped == [tag |-> "Dropped"]

\* A job: its state, its embeddings once computed, and the answer the embedding
\* service gave it (tag "none" while it was not asked).
NotAsked == [tag |-> "none", tokens |-> 0]
NewJob == [st |-> "Submitted", emb |-> None, ai |-> NotAsked]

\* A caller slot before its call.
\*   logged : the messages of the arms that report a lost result or a failure
\*            of the pool, in the order they were written
IdleCall ==
  [kind |-> "none", pc |-> "idle", ret |-> "pending", workspace_id |-> "none",
   docs |-> << >>, jobs |-> << >>, results |-> << >>, params |-> << >>,
   channel |-> Unset, persisted |-> << >>, logged |-> << >>]

\* upsert_collab_embeddings(pg_pool, workspace_id, object_id, tokens_used, content)
Upsert(workspace_id, object_id, tokens_used, content, outcome) ==
  [workspace_id |-> workspace_id, object_id |-> object_id,
   tokens_used |-> tokens_used, content |-> content, result |-> outcome]

\* What the global pool does with a panic: rayon aborts the process unless a
\* panic handler was installed; the choice is fixed by the first panic.
PanicChoices ==
  IF panic_handler = "unknown" THEN {"abort", "handled"} ELSE {panic_handler}

\* ------------------------------------------------ index_encoded_collab_one
\* A call that spawns the closure and does not return before the job is over.
index_encoded_collab_one_waiting(c, workspace_id, indexed_collab) ==
  /\ process = "running"
  /\ call[c].pc = "idle"
  /\ LET parsed == Uuid_parse_str(workspace_id) IN
     call' = [call EXCEPT ![c] =
       IF IsErr(parsed)
       THEN [@ EXCEPT !.kind = "one", !.pc = "done", !.ret = "Err_InvalidUuid"]
       ELSE [@ EXCEPT !.kind = "one", !.pc = "queued", !.ret = "pending",
                      !.workspace_id = parsed.val,
                      !.docs = << indexed_collab >>, !.jobs = << NewJob >>]]
  /\ UNCHANGED << indexer_cache, readers, writer, busy, sweep, process, panic_handler,
                  settings, gate >>

\* The call itself: parse the workspace id, spawn the closure, return Ok.
index_encoded_collab_one(c, workspace_id, indexed_collab) ==
  /\ process = "running"
  /\ call[c].pc = "idle"
  /\ LET parsed == Uuid_parse_str(workspace_id) IN
     call' = [call EXCEPT ![c] =
       IF IsErr(parsed)
       THEN [@ EXCEPT !.kind = "one", !.pc = "done", !.ret = "Err_InvalidUuid"]
       ELSE [@ EXCEPT !.kind = "one", !.pc = "queued", !.ret = "Ok",
                      !.workspace_id = parsed.val,
                      !.docs = << indexed_collab >>, !.jobs = << NewJob >>]]
  /\ UNCHANGED << indexer_cache, readers, writer, busy, sweep, process, panic_handler,
                  settings, gate >>

\* The spawned closure starts on a thread of the global pool and runs
\* process_collab up to the call of embed.
one_job_start(c) ==
  /\ process = "running"
  /\ call[c].kind = "one" /\ call[c].pc = "queued"
  /\ LET d == call[c].docs[1] IN
     call' = [call EXCEPT ![c] =
       IF ReachesService(d)
       THEN [@ EXCEPT !.pc = "computing", !.jobs[1].st = "Computing"]
       ELSE [@ EXCEPT !.pc = "done", !.jobs[1].st = EarlyTerminal(d)]]
  /\ UNCHANGED << indexer_cache, readers, writer, busy, sweep, process, panic_handler,
                  settings, gate >>

\* embed returns (or panics): Some spawns the upsert task, None is logged.
one_job_finish(c, ai) ==
  /\ process = "running"
  /\ call[c].kind = "one" /\ call[c].pc = "computing"
  /\ LET r == process_collab(call[c].docs[1], ai) IN
     IF IsPanic(r)
     THEN \E h \in PanicChoices :
            /\ panic_handler' = h
            /\ process' = IF h = "abort" THEN "aborted" ELSE "running"
            /\ call' = [call EXCEPT ![c].pc = "done", ![c].jobs[1].st = "Panicked",
                                    ![c].jobs[1].ai = ai]
     ELSE /\ call' = [call EXCEPT ![c] =
                IF IsSome(r)
                THEN [@ EXCEPT !.pc = "persisting",
                               !.jobs[1] = [st |-> "Completed", emb |-> r, ai |-> ai]]
                ELSE [@ EXCEPT !.pc = "done", !.jobs[1].st = "Failed",
                               !.jobs[1].ai = ai]]
          /\ UNCHANGED << process, panic_handler >>
  /\ UNCHANGED << indexer_cache, readers, writer, busy, sweep, settings, gate >>

\* A task whose upsert error becomes the result of the call.
one_upsert_returns_error(c, outcome) ==
  /\ process = "running"
  /\ call[c].kind = "one" /\ call[c].pc = "persisting"
  /\ LET e == call[c].jobs[1].emb.val IN
     call' = [call EXCEPT
       ![c].persisted = Append(@, Upsert(call[c].workspace_id,
                                         call[c].docs[1].object_id,
                                         e.tokens_used, e.content, outcome)),
       ![c].pc = "done",
       ![c].ret = IF outcome = "ok" THEN "Ok" ELSE "Err_upsert"]
  /\ UNCHANGED << indexer_cache, readers, writer, busy, sweep, process, panic_handler,
                  settings, gate >>

\* A spawned task that ends without having called the upsert.
one_upsert_never_called(c, outcome) ==
  /\ process = "running"
  /\ call[c].kind = "one" /\ call[c].pc = "persisting"
  /\ call' = [call EXCEPT ![c].pc = "done"]
  /\ UNCHANGED << indexer_cache, readers, writer, busy, sweep, process, panic_handler,
                  settings, gate >>

\* The tokio task of the closure: one upsert, its error only logged.
one_upsert(c, outcome) ==
  /\ process = "running"
  /\ call[c].kind = "one" /\ call[c].pc = "persisting"
  /\ LET e == call[c].jobs[1].emb.val IN
     call' = [call EXCEPT
       ![c].persisted = Append(@, Upsert(call[c].workspace_id,
                                         call[c].docs[1].object_id,
                                         e.tokens_used, e.content, outcome)),
       ![c].pc = "done"]
  /\ UNCHANGED << indexer_cache, readers, writer, busy, sweep, process, panic_handler,
                  settings, gate >>

\* --------------------------------------------------- index_encoded_collabs
\* The call itself: parse the workspace id, spawn the batch closure, return Ok.
index_encoded_collabs(c, workspace_id, indexed_collabs) ==
  /\ process = "running"
  /\ call[c].pc = "idle"
  /\ LET parsed == Uuid_parse_str(workspace_id) IN
     call' = [call EXCEPT ![c] =
       IF IsErr(parsed)
       THEN [@ EXCEPT !.kind = "many", !.pc = "done", !.ret = "Err_InvalidUuid"]
       ELSE [@ EXCEPT !.kind = "many", !.pc = "queued", !.ret = "Ok",
                      !.workspace_id = parsed.val,
                      !.docs = indexed_collabs,
                      !.jobs = [i \in 1 .. Len(indexed_collabs) |-> NewJob]]]
  /\ UNCHANGED << indexer_cache, readers, writer, busy, sweep, process, panic_handler,
                  settings, gate >>

\* One item of the parallel iterator starts on a worker of `threads`.
batch_job_start(c, i) ==
  /\ process = "running"
  /\ call[c].kind = "many" /\ call[c].pc = "queued"
  /\ i \in 1 .. Len(call[c].docs)
  /\ call[c].jobs[i].st = "Submitted"
  /\ busy < NumThread
  /\ LET d == call[c].docs[i] IN
     IF ReachesService(d)
     THEN /\ call' = [call EXCEPT ![c].jobs[i].st = "Computing"]
          /\ busy' = busy + 1
     ELSE /\ call' = [call EXCEPT ![c].jobs[i].st = EarlyTerminal(d)]
          /\ busy' = busy
  /\ UNCHANGED << indexer_cache, readers, writer, sweep, process, panic_handler,
                  settings, gate >>

\* The item's process_collab returns, or panics on its worker.
batch_job_finish(c, i, ai) ==
  /\ process = "running"
  /\ call[c].kind = "many" /\ call[c].pc = "queued"
  /\ i \in 1 .. Len(call[c].docs)
  /\ call[c].jobs[i].st = "Computing"
  /\ LET r == process_collab(call[c].docs[i], ai) IN
     call' = [call EXCEPT ![c].jobs[i] =
       IF IsPanic(r) THEN [st |-> "Panicked", emb |-> None, ai |-> ai]
       ELSE IF IsSome(r) THEN [st |-> "Completed", emb |-> r, ai |-> ai]
       ELSE [st |-> "Failed", emb |-> None, ai |-> ai]]
  /\ busy' = busy - 1
  /\ UNCHANGED << indexer_cache, readers, writer, sweep, process, panic_handler,
                  settings, gate >>

\* filter_map(..).collect::<Vec<_>>(): the Some results, in the order of the items.
RECURSIVE collect(_)
collect(jobs) ==
  IF jobs = << >> THEN << >>
  ELSE IF IsSome(Head(jobs).emb) THEN << Head(jobs).emb.val >> \o collect(Tail(jobs))
  ELSE collect(Tail(jobs))

\* An install that drops the item that panicked and collects the others.
batch_install_per_item(jobs) == Ok(collect(jobs))

\* threads.install(|| ..): the collected vector, or CatchedPanic when an item panicked.
batch_install(jobs) ==
  install(IF \E i \in 1 .. Len(jobs) : jobs[i].st = "Panicked"
          THEN Panic ELSE Returned(collect(jobs)))

\* A collect that does not wait for the items still to run or running.
batch_collect_early(c) ==
  /\ process = "running"
  /\ call[c].kind = "many" /\ call[c].pc = "queued"
  /\ \E i \in 1 .. Len(call[c].jobs) :
       call[c].jobs[i].st \notin {"Submitted", "Computing"}
  /\ LET results == batch_install(call[c].jobs) IN
     call' = [call EXCEPT ![c] =
       IF IsOk(results) /\ results.val # << >>
       THEN [@ EXCEPT !.pc = "persisting", !.results = results.val]
       ELSE IF IsOk(results) THEN [@ EXCEPT !.pc = "done"]
       ELSE [@ EXCEPT !.pc = "done",
                      !.logged = Append(@, "Failed to process batch indexing")]]
  /\ UNCHANGED << indexer_cache, readers, writer, busy, sweep, process, panic_handler,
                  settings, gate >>

\* install returns once every item is finished: Ok spawns the upsert task, Err
\* is logged once for the batch.
batch_collect(c) ==
  /\ process = "running"
  /\ call[c].kind = "many" /\ call[c].pc = "queued"
  /\ \A i \in 1 .. Len(call[c].jobs) :
       call[c].jobs[i].st \notin {"Submitted", "Computing"}
  /\ LET results == batch_install(call[c].jobs) IN
     call' = [call EXCEPT ![c] =
       IF IsOk(results) /\ results.val # << >>
       THEN [@ EXCEPT !.pc = "persisting", !.results = results.val]
       ELSE IF IsOk(results) THEN [@ EXCEPT !.pc = "done"]
       ELSE [@ EXCEPT !.pc = "done",
                      !.logged = Append(@, "Failed to process batch indexing")]]
  /\ UNCHANGED << indexer_cache, readers, writer, busy, sweep, process, panic_handler,
                  settings, gate >>

\* The object id the batch's upsert is keyed by: that of the first content chunk.
batch_object_id(contents) == contents[1].object_id

\* A loop that ends at the first upsert error.
batch_upsert_stops_at_error(c, outcome) ==
  /\ process = "running"
  /\ call[c].kind = "many" /\ call[c].pc = "persisting"
  /\ LET e == Head(call[c].results)
         rest == IF outcome = "err" THEN << >> ELSE Tail(call[c].results) IN
     call' = [call EXCEPT
       ![c].persisted =
          IF e.content = << >> THEN @
          ELSE Append(@, Upsert(call[c].workspace_id, batch_object_id(e.content),
                                e.tokens_used, e.content, outcome)),
       ![c].results = rest,
       ![c].pc = IF rest = << >> THEN "done" ELSE "persisting"]
  /\ UNCHANGED << indexer_cache, readers, writer, busy, sweep, process, panic_handler,
                  settings, gate >>

\* One turn of the upsert loop over embeddings_list.
batch_upsert(c, outcome) ==
  /\ process = "running"
  /\ call[c].kind = "many" /\ call[c].pc = "persisting"
  /\ LET e == Head(call[c].results)
         rest == Tail(call[c].results) IN
     call' = [call EXCEPT
       ![c].persisted =
          IF e.content = << >> THEN @
          ELSE Append(@, Upsert(call[c].workspace_id, batch_object_id(e.content),
                                e.tokens_used, e.content, outcome)),
       ![c].results = rest,
       ![c].pc = IF rest = << >> THEN "done" ELSE "persisting"]
  /\ UNCHANGED << indexer_cache, readers, writer, busy, sweep, process, panic_handler,
                  settings, gate >>

\* ------------------------------------------------------------ index_collab
\* The states the live collab can be read in.
LiveStates == {"notext", "blank", "text"}

\* A lookup that passes a missing indexer on instead of returning the error.
lookup_indexer_silent(collab_type) == Ok("DocumentIndexer")

\* indexer_for(collab_type).ok_or_else(|| AppError::Internal(..))?
lookup_indexer(collab_type) ==
  LET indexer == indexer_for(collab_type) IN
  IF IsNone(indexer) THEN Err("NoIndexer") ELSE Ok(indexer.val)

\* The call up to the lock: parse the workspace id, look the indexer up.
index_collab(c, workspace_id, object_id, collab_type) ==
  /\ process = "running"
  /\ call[c].pc = "idle"
  /\ LET parsed == Uuid_parse_str(workspace_id) IN
     call' = [call EXCEPT ![c] =
       IF IsErr(parsed)
       THEN [@ EXCEPT !.kind = "collab", !.pc = "done", !.ret = "Err_InvalidUuid"]
       ELSE IF IsErr(lookup_indexer(collab_type))
       THEN [@ EXCEPT !.kind = "collab", !.pc = "done", !.ret = "Err_NoIndexer",
                      !.workspace_id = parsed.val,
                      !.docs = << IndexedCollab(object_id, collab_type, "live") >>]
       ELSE [@ EXCEPT !.kind = "collab", !.pc = "lock",
                      !.workspace_id = parsed.val,
                      !.docs = << IndexedCollab(object_id, collab_type, "live") >>,
                      !.jobs = << NewJob >>]]
  /\ UNCHANGED << indexer_cache, readers, writer, busy, sweep, process, panic_handler,
                  settings, gate >>

\* collab.read().await: granted when no writer holds the lock.
collab_read(c) ==
  /\ process = "running"
  /\ call[c].kind = "collab" /\ call[c].pc = "lock"
  /\ ~writer
  /\ readers' = readers \cup {c}
  /\ call' = [call EXCEPT ![c].pc = "locked"]
  /\ UNCHANGED << indexer_cache, writer, busy, sweep, process, panic_handler,
                  settings, gate >>

\* A guard that is not dropped before the spawn (it would go at the return).
drop_lock_at_return(c) == readers

\* drop(lock): the read guard is given back.
drop_lock(c) == readers \ {c}

\* A `?` that returns the extraction error with the guard still held.
return_with_guard_held(c) == readers

\* The `?` of create_embedded_content(&lock): the function returns and the
\* guard, a local of its frame, is dropped with it.
return_with_guard(c) == readers \ {c}

\* create_embedded_content(&lock)?, drop(lock) and the spawn of the closure. An
\* extraction error returns at once, and the guard goes with the frame.
collab_extract(c, state) ==
  /\ process = "running"
  /\ call[c].kind = "collab" /\ call[c].pc = "locked"
  /\ LET contents == create_embedded_content(
                       [object_id |-> call[c].docs[1].object_id, state |-> state]) IN
     IF IsErr(contents)
     THEN /\ call' = [call EXCEPT ![c].pc = "done", ![c].ret = "Err_extract",
                                  ![c].docs[1].encoded_collab = state,
                                  ![c].jobs[1].st = "Failed"]
          /\ readers' = return_with_guard(c)
     ELSE /\ call' = [call EXCEPT ![c].pc = "queued", ![c].params = contents.val,
                                  ![c].docs[1].encoded_collab = state]
          /\ readers' = drop_lock(c)
  /\ UNCHANGED << indexer_cache, writer, busy, sweep, process, panic_handler,
                  settings, gate >>

\* What the closure sends: unwrap() of the pool's result, none mapped to an error.
\* An Err of embed_in_thread_pool makes unwrap panic.
collab_result(r) ==
  IF IsErr(r) THEN Panic
  ELSE IF IsNone(r.val) THEN Err("Failed to create embeddings for collab")
  ELSE Ok(r.val.val)

\* The spawned closure starts; with content it takes a worker of `threads`.
collab_job_start(c) ==
  /\ process = "running"
  /\ call[c].kind = "collab" /\ call[c].pc = "queued"
  /\ IF call[c].params = << >>
     THEN /\ call' = [call EXCEPT
                ![c].pc = "await", ![c].jobs[1].st = "Skipped",
                ![c].channel = collab_result(embed_in_thread_pool(<< >>, NoAi))]
          /\ busy' = busy
     ELSE /\ busy < NumThread
          /\ call' = [call EXCEPT ![c].pc = "computing", ![c].jobs[1].st = "Computing"]
          /\ busy' = busy + 1
  /\ UNCHANGED << indexer_cache, readers, writer, sweep, process, panic_handler,
                  settings, gate >>

\* embed_in_thread_pool returns: the closure sends the result, or its unwrap
\* panics on the global pool and the sender is dropped.
collab_job_finish(c, ai) ==
  /\ process = "running"
  /\ call[c].kind = "collab" /\ call[c].pc = "computing"
  /\ busy' = busy - 1
  /\ LET r == collab_result(embed_in_thread_pool(call[c].params, ai)) IN
     IF IsPanic(r)
     THEN \E h \in PanicChoices :
            /\ panic_handler' = h
            /\ process' = IF h = "abort" THEN "aborted" ELSE "running"
            /\ call' = [call EXCEPT ![c].pc = "await", ![c].channel = Dropped,
                                    ![c].jobs[1].st = "Failed", ![c].jobs[1].ai = ai]
     ELSE /\ call' = [call EXCEPT
                ![c].pc = "await", ![c].channel = r,
                ![c].jobs[1] =
                   IF IsOk(r)
                   THEN [st |-> "Completed",
                         emb |-> Some([tokens_used |-> r.val.tokens_consumed,
                                       content |-> r.val.params]),
                         ai |-> ai]
                   ELSE [st |-> "Skipped", emb |-> None, ai |-> ai]]
          /\ UNCHANGED << process, panic_handler >>
  /\ UNCHANGED << indexer_cache, readers, writer, sweep, settings, gate >>

\* A return that hands the error received through the channel to the caller.
collab_return_propagates(channel) == IF IsErr(channel) THEN "Err_compute" ELSE "Ok"

\* What the call returns for a received value that needs no upsert: both
\* arms log and fall through to Ok(()).
collab_return(channel) == "Ok"

\* Arms that log a lost result with the words of a failed computation.
collab_log_one_message(channel) == "Failed to index collab"

\* The message of the arm taken for a received value that needs no upsert:
\* Ok(Err(err)) for a failed computation, Err(_) for a dropped sender.
collab_log(channel) ==
  IF channel = Dropped THEN "Failed to receive index result"
  ELSE "Failed to index collab"

\* rx.await resolves: a value to upsert, a logged error, or a lost result.
collab_recv(c) ==
  /\ process = "running"
  /\ call[c].kind = "collab" /\ call[c].pc = "await"
  /\ call' = [call EXCEPT ![c] =
       IF IsOk(call[c].channel)
       THEN [@ EXCEPT !.pc = "persisting"]
       ELSE [@ EXCEPT !.pc = "done", !.ret = collab_return(call[c].channel),
                      !.logged = Append(@, collab_log(call[c].channel))]]
  /\ UNCHANGED << indexer_cache, readers, writer, busy, sweep, process, panic_handler,
                  settings, gate >>

\* An upsert whose error is logged like those of the other entry points.
collab_upsert_logs_error(c, outcome) ==
  /\ process = "running"
  /\ call[c].kind = "collab" /\ call[c].pc = "persisting"
  /\ LET e == call[c].channel.val IN
     call' = [call EXCEPT
       ![c].persisted = Append(@, Upsert(call[c].workspace_id,
                                         call[c].docs[1].object_id,
                                         e.tokens_consumed, e.params, outcome)),
       ![c].pc = "done",
       ![c].ret = "Ok"]
  /\ UNCHANGED << indexer_cache, readers, writer, busy, sweep, process, panic_handler,
                  settings, gate >>

\* upsert_collab_embeddings(..).await?: its error is the call's error.
collab_upsert(c, outcome) ==
  /\ process = "running"
  /\ call[c].kind = "collab" /\ call[c].pc = "persisting"
  /\ LET e == call[c].channel.val IN
     call' = [call EXCEPT
       ![c].persisted = Append(@, Upsert(call[c].workspace_id,
                                         call[c].docs[1].object_id,
                                         e.tokens_consumed, e.params, outcome)),
       ![c].pc = "done",
       ![c].ret = IF outcome = "ok" THEN "Ok" ELSE "Err_upsert"]
  /\ UNCHANGED << indexer_cache, readers, writer, busy, sweep, process, panic_handler,
                  settings, gate >>

\* Another holder of the Arc<RwLock<Collab>> takes the write guard. It matters
\* to a call only while that call waits for its read guard.
writer_acquire ==
  /\ process = "running"
  /\ ~writer /\ readers = {}
  /\ \E c \in Calls : call[c].pc = "lock"
  /\ writer' = TRUE
  /\ UNCHANGED << indexer_cache, call, readers, busy, sweep, process, panic_handler,
                  settings, gate >>

writer_release ==
  /\ process = "running"
  /\ writer
  /\ writer' = FALSE
  /\ UNCHANGED << indexer_cache, call, readers, busy, sweep, process, panic_handler,
                  settings, gate >>

\* ------------------------------------------------------- the catch-up sweep
\* The collab types of the listed documents.
ListedTypes == {"Document", "Folder"}

\* The object ids of the listed documents, by position in the listing.
SweepObjectIds == << "s1", "s2", "s3", "s4" >>

\* The listings get_collabs_without_embeddings can return.
Listings ==
  { [i \in 1 .. Len(ts) |->
       [workspace_id |-> "w1", object_id |-> SweepObjectIds[i], collab_type |-> ts[i]]]
    : ts \in SeqsUpTo(ListedTypes, MaxListing) }

\* The doc states storage can hold for a listed document.
StoredStates == {"badstate", "notext", "blank", "text"}

\* The task as tokio::spawn(handle_unindexed_collabs(..)) leaves it.
\*   fetches, decodes : per listed position, the calls of get_encode_collab and
\*                      of Collab::new_with_source made for it
\*   indexed          : the positions whose embeddings were written
NewSweep ==
  [pc |-> "list", listing |-> << >>, pos |-> 1, i |-> 0, cur |-> "none",
   params |-> << >>, channel |-> Unset, fetches |-> << >>, decodes |-> << >>,
   indexed |-> {}, persisted |-> << >>, summary |-> -1]

\* A match whose arms all fetch and yield.
eligible_every_type(collab_type) == collab_type \in CollabTypes

\* The match of get_unindexed_collabs: only documents are fetched and yielded.
eligible(collab_type) ==
  CASE collab_type = "Document" -> TRUE
    [] collab_type \in {"Database", "WorkspaceDatabase", "Folder", "DatabaseRow",
                        "UserAwareness", "Unknown"} -> FALSE

\* get_collabs_without_embeddings(&db).await?: the listing, or an error item
\* after which the stream has ended.
sweep_list(listed) ==
  /\ process = "running"
  /\ sweep.pc = "list"
  /\ sweep' =
       IF IsErr(listed)
       THEN [sweep EXCEPT !.pc = "summary"]
       ELSE [sweep EXCEPT !.pc = "next", !.listing = listed.val,
                          !.fetches = [k \in 1 .. Len(listed.val) |-> 0],
                          !.decodes = [k \in 1 .. Len(listed.val) |-> 0]]
  /\ UNCHANGED << indexer_cache, call, readers, writer, busy, process, panic_handler,
                  settings, gate >>

\* The listing is exhausted: the stream ends.
sweep_end ==
  /\ process = "running"
  /\ sweep.pc = "next"
  /\ sweep.pos > Len(sweep.listing)
  /\ sweep' = [sweep EXCEPT !.pc = "summary"]
  /\ UNCHANGED << indexer_cache, call, readers, writer, busy, process, panic_handler,
                  settings, gate >>

\* A listed collab of another type is passed over.
sweep_skip ==
  /\ process = "running"
  /\ sweep.pc = "next"
  /\ sweep.pos <= Len(sweep.listing)
  /\ ~eligible(sweep.listing[sweep.pos].collab_type)
  /\ sweep' = [sweep EXCEPT !.pos = @ + 1]
  /\ UNCHANGED << indexer_cache, call, readers, writer, busy, process, panic_handler,
                  settings, gate >>

\* The count after index_unindexd_collab returned: Ok counts, Err does not.
count_after(i, returned) == IF returned = "Ok" THEN i + 1 ELSE i

\* What the stream does after get_encode_collab(..).await? failed: try_stream
\* yields the error and ends, so the while-let loop sees no further item.
after_fetch_error(s) == [s EXCEPT !.pc = "summary"]

\* storage.get_encode_collab(..).await? for a listed document, then the yield
\* and the first lines of index_unindexd_collab: without an indexer it returns Ok.
sweep_fetch(fetched) ==
  /\ process = "running"
  /\ sweep.pc = "next"
  /\ sweep.pos <= Len(sweep.listing)
  /\ eligible(sweep.listing[sweep.pos].collab_type)
  /\ LET s == [sweep EXCEPT !.fetches[sweep.pos] = @ + 1] IN
     sweep' =
       IF IsErr(fetched) THEN after_fetch_error(s)
       ELSE IF IsNone(indexer_for(sweep.listing[sweep.pos].collab_type))
       THEN [s EXCEPT !.i = count_after(@, "Ok"), !.pos = @ + 1]
       ELSE [s EXCEPT !.pc = "queued", !.cur = fetched.val]
  /\ UNCHANGED << indexer_cache, call, readers, writer, busy, process, panic_handler,
                  settings, gate >>

\* The closure f up to embed_in_thread_pool: Collab::new_with_source and
\* create_embedded_content, each error sent through the channel.
sweep_prepare(object_id, doc_state) ==
  LET collab == new_with_source(object_id, doc_state) IN
  IF IsErr(collab) THEN collab ELSE create_embedded_content(collab.val)

\* The spawned closure starts; with content it takes a worker of `threads`.
sweep_job_start ==
  /\ process = "running"
  /\ sweep.pc = "queued"
  /\ LET params == sweep_prepare(sweep.listing[sweep.pos].object_id, sweep.cur)
         s == [sweep EXCEPT !.decodes[sweep.pos] = @ + 1] IN
     IF IsErr(params)
     THEN /\ sweep' = [s EXCEPT !.pc = "await", !.channel = Ok(params)]
          /\ busy' = busy
     ELSE IF params.val = << >>
     THEN /\ sweep' = [s EXCEPT !.pc = "await",
                                !.channel = Ok(embed_in_thread_pool(<< >>, NoAi))]
          /\ busy' = busy
     ELSE /\ busy < NumThread
          /\ sweep' = [s EXCEPT !.pc = "computing", !.params = params.val]
          /\ busy' = busy + 1
  /\ UNCHANGED << indexer_cache, call, readers, writer, process, panic_handler,
                  settings, gate >>

\* embed_in_thread_pool returns and the closure sends f's result.
sweep_job_finish(ai) ==
  /\ process = "running"
  /\ sweep.pc = "computing"
  /\ sweep' = [sweep EXCEPT !.pc = "await",
                            !.channel = Ok(embed_in_thread_pool(sweep.params, ai))]
  /\ busy' = busy - 1
  /\ UNCHANGED << indexer_cache, call, readers, writer, process, panic_handler,
                  settings, gate >>

\* What index_unindexd_collab returns for a received result that needs no
\* upsert: the three logging arms fall through to Ok(()).
sweep_return(channel) == "Ok"

\* A stream that fetches the next listed document while the upsert of the
\* current one is still to be made.
sweep_recv_fetching_ahead ==
  /\ process = "running"
  /\ sweep.pc = "await"
  /\ LET received == sweep.channel IN
     sweep' =
       IF IsOk(received) /\ IsOk(received.val) /\ IsSome(received.val.val)
       THEN [sweep EXCEPT !.pc = "persisting",
                          !.fetches = [q \in DOMAIN @ |->
                                         IF q = sweep.pos + 1 THEN @[q] + 1 ELSE @[q]]]
       ELSE [sweep EXCEPT !.pc = "next", !.pos = @ + 1, !.channel = Unset,
                          !.cur = "none", !.params = << >>,
                          !.i = count_after(@, sweep_return(received))]
  /\ UNCHANGED << indexer_cache, call, readers, writer, busy, process, panic_handler,
                  settings, gate >>

\* rx.await resolves: embeddings to upsert, or an arm that only logs.
sweep_recv ==
  /\ process = "running"
  /\ sweep.pc = "await"
  /\ LET received == sweep.channel IN
     sweep' =
       IF IsOk(received) /\ IsOk(received.val) /\ IsSome(received.val.val)
       THEN [sweep EXCEPT !.pc = "persisting"]
       ELSE [sweep EXCEPT !.pc = "next", !.pos = @ + 1, !.channel = Unset,
                          !.cur = "none", !.params = << >>,
                          !.i = count_after(@, sweep_return(received))]
  /\ UNCHANGED << indexer_cache, call, readers, writer, busy, process, panic_handler,
                  settings, gate >>

\* upsert_collab_embeddings(..).await?: Ok(()) is counted, the error is not.
sweep_upsert(outcome) ==
  /\ process = "running"
  /\ sweep.pc = "persisting"
  /\ LET e == sweep.channel.val.val.val
         cid == sweep.listing[sweep.pos] IN
     sweep' = [sweep EXCEPT
       !.persisted = Append(@, Upsert(cid.workspace_id, cid.object_id,
                                      e.tokens_consumed, e.params, outcome)),
       !.indexed = IF outcome = "ok" THEN @ \cup {sweep.pos} ELSE @,
       !.i = count_after(@, IF outcome = "ok" THEN "Ok" ELSE "Err_upsert"),
       !.pc = "next", !.pos = @ + 1, !.channel = Unset, !.cur = "none",
       !.params = << >>]
  /\ UNCHANGED << indexer_cache, call, readers, writer, busy, process, panic_handler,
                  settings, gate >>

\* A task that is started again once it has written its summary.
sweep_summary_restarting ==
  /\ process = "running"
  /\ sweep.pc = "summary"
  /\ sweep' = [sweep EXCEPT !.pc = "list", !.summary = sweep.i]
  /\ UNCHANGED << indexer_cache, call, readers, writer, busy, process, panic_handler,
                  settings, gate >>

\* The stream has ended: the summary line with the count.
sweep_summary ==
  /\ process = "running"
  /\ sweep.pc = "summary"
  /\ sweep' = [sweep EXCEPT !.pc = "done", !.summary = sweep.i]
  /\ UNCHANGED << indexer_cache, call, readers, writer, busy, process, panic_handler,
                  settings, gate >>

\* ----------------------------------------------------------- specification
\* IndexerProvider::new and IndexerScheduler::new have run: the registry is
\* built from the flag, the pool is idle and the sweep task is spawned.
Init ==
  /\ \E enabled \in BOOLEAN : indexer_cache = IndexerProvider_new(enabled)
  /\ call = [c \in Calls |-> IdleCall]
  /\ readers = {}
  /\ writer = FALSE
  /\ busy = 0
  /\ sweep = NewSweep
  /\ process = "running"
  /\ panic_handler = "unknown"
  /\ settings = [w \in Workspaces |-> None]
  /\ gate = NoGate

\* The steps of index_encoded_collab_one calls made through the caller slots S.
OneNext(S) ==
  \/ \E c \in S, w \in WorkspaceIdStrings, d \in IndexedCollabs :
       index_encoded_collab_one(c, w, d)
  \/ \E c \in S : one_job_start(c)
  \/ \E c \in S, ai \in AiOutcomes : one_job_finish(c, ai)
  \/ \E c \in S, u \in UpsertOutcomes : one_upsert(c, u)

\* The steps of index_encoded_collabs calls made through the caller slots S.
ManyNext(S) ==
  \/ \E c \in S, w \in WorkspaceIdStrings, b \in SeqsUpTo(IndexedCollabs, MaxBatch) :
       index_encoded_collabs(c, w, b)
  \/ \E c \in S, i \in 1 .. MaxBatch : batch_job_start(c, i)
  \/ \E c \in S, i \in 1 .. MaxBatch, ai \in AiOutcomes : batch_job_finish(c, i, ai)
  \/ \E c \in S : batch_collect(c)
  \/ \E c \in S, u \in UpsertOutcomes : batch_upsert(c, u)

\* The steps of index_collab calls made through the caller slots S, and of the
\* other holder of the live collab.
CollabNext(S) ==
  \/ \E c \in S, w \in WorkspaceIdStrings, o \in {"o1", "o3"}, t \in ListedTypes :
       index_collab(c, w, o, t)
  \/ \E c \in S : collab_read(c)
  \/ \E c \in S, s \in LiveStates : collab_extract(c, s)
  \/ \E c \in S : collab_job_start(c)
  \/ \E c \in S, ai \in AiOutcomes : collab_job_finish(c, ai)
  \/ \E c \in S : collab_recv(c)
  \/ \E c \in S, u \in UpsertOutcomes : collab_upsert(c, u)
  \/ writer_acquire
  \/ writer_release

\* The steps of the calls made through the caller slots S.
CallerNext(S) == OneNext(S) \/ ManyNext(S) \/ CollabNext(S)

\* The steps of the catch-up task.
SweepNext ==
  \/ \E l \in {Err("db")} \cup {Ok(x) : x \in Listings} : sweep_list(l)
  \/ sweep_end
  \/ sweep_skip
  \/ \E f \in {Err("storage")} \cup {Ok(x) : x \in StoredStates} : sweep_fetch(f)
  \/ sweep_job_start
  \/ \E ai \in AiOutcomes : sweep_job_finish(ai)
  \/ sweep_recv
  \/ \E u \in UpsertOutcomes : sweep_upsert(u)
  \/ sweep_summary

\* The steps around the workspace settings.
GateNext ==
  \/ \E on \in {"scheduler", "provider"}, w \in Workspaces \cup WorkspaceIdStrings,
        db \in {"ok", "err"} : gate_call(on, w, db)
  \/ \E w \in Workspaces, row \in SettingsRows : upsert_workspace_settings(w, row)

Next == CallerNext(Calls) \/ SweepNext \/ GateNext

Spec == Init /\ [][Next]_vars

\* The catch-up task alone: no call arrives while it runs.
SweepSpec == Init /\ [][SweepNext]_vars

\* Concurrent index_encoded_collab_one calls.
OneSpec == Init /\ [][OneNext(Calls)]_vars

\* The same under the scheduling the runtimes give: a closure spawned on the
\* rayon pool is run, the embedding service answers, and a task spawned on
\* tokio is polled to its end.
FairOneSpec ==
  /\ OneSpec
  /\ \A c \in Calls :
       /\ WF_vars(one_job_start(c))
       /\ WF_vars(\E ai \in AiOutcomes : one_job_finish(c, ai))
       /\ WF_vars(\E u \in UpsertOutcomes : one_upsert(c, u))

\* One index_encoded_collabs call.
ManySpec == Init /\ [][ManyNext({1})]_vars

\* Concurrent index_collab calls on one live collab.
CollabSpec == Init /\ [][CollabNext(Calls)]_vars

\* One call of any entry point beside the catch-up task.
EntrySpec == Init /\ [][CallerNext({1}) \/ SweepNext]_vars

\* Every path on its own: either the catch-up task runs and no call arrives,
\* or one call of any entry point runs before the catch-up task has started.
PathNext ==
  \/ (\A c \in Calls : call[c].pc = "idle") /\ SweepNext
  \/ sweep.pc = "list" /\ CallerNext({1})
PathSpec == Init /\ [][PathNext]_vars

\* The workspace settings and the calls that ask about them.
GateSpec == Init /\ [][GateNext]_vars

\* One index_encoded_collab_one call, with the workspace settings written and
\* asked about only while no call is under way: no setting changes under a
\* running job.
OptOutNext ==
  \/ OneNext({1})
  \/ (\A c \in Calls : call[c].pc \in {"idle", "done"}) /\ GateNext
OptOutSpec == Init /\ [][OptOutNext]_vars

\* Every path on its own as in PathSpec, beside the workspace settings and the
\* calls that ask the scheduler or the registry about them.
RegistrySpec == Init /\ [][PathNext \/ GateNext]_vars

\* ================================================================== claims

\* C1: in index_collab the read guard of the live collab is held only across
\* the content extraction: a call that holds it is at the extraction step, so
\* no call holds it once its closure is spawned, while the embedding is
\* computed, while the result is awaited or upserted, or after the return.
C1_LockOnlyAcrossExtraction ==
  \A c \in Calls :
    c \in readers => call[c].kind = "collab" /\ call[c].pc = "locked"

\* C1 happens: a call's embedding is being computed while another holder has
\* been granted the write guard of the same collab.
C1_Witness ==
  \E c \in Calls :
    call[c].kind = "collab" /\ call[c].pc = "computing" /\ writer

\* Whether the upsert calls of call c include one for its document i.
UpsertedFor(c, i) ==
  \E k \in 1 .. Len(call[c].persisted) :
    call[c].persisted[k].object_id = call[c].docs[i].object_id

\* C2: a job that panics leaves the scheduler working: the process is not
\* aborted, and once a batch is finished every job of it that completed with
\* embeddings has been upserted, whatever happened to the other jobs.
C2_PanicIsIsolated ==
  /\ process = "running"
  /\ \A c \in Calls :
       call[c].kind = "many" /\ call[c].pc = "done" =>
         \A i \in 1 .. Len(call[c].jobs) :
           call[c].jobs[i].st = "Completed" => UpsertedFor(c, i)

\* The premise of C3 for call c: a well-formed workspace id (the call was
\* accepted and its closure spawned), a registered type, non-empty content.
C3_Accepted(c) ==
  /\ call[c].kind = "one" /\ call[c].pc = "queued"
  /\ call[c].docs[1].collab_type \in DOMAIN indexer_cache
  /\ call[c].docs[1].encoded_collab = "text"

\* Call c has ended with exactly one upsert, for its own workspace and object.
C3_PersistedOnce(c) ==
  /\ call[c].pc = "done"
  /\ call[c].docs # << >>
  /\ Len(call[c].persisted) = 1
  /\ call[c].persisted[1].workspace_id = call[c].workspace_id
  /\ call[c].persisted[1].object_id = call[c].docs[1].object_id

\* The embedding service failed call c, or a panic has aborted the process.
C3_NoEmbeddings(c) ==
  \/ process = "aborted"
  \/ call[c].jobs # << >> /\ call[c].jobs[1].ai.tag \in {"err", "panic"}

\* C3: under fair scheduling every accepted index_encoded_collab_one call on a
\* document of a registered type with non-empty content, whose embeddings the
\* service computes, ends with exactly one upsert call for its own
\* (workspace_id, object_id), whatever the other calls do and in whatever order
\* the jobs finish; no call ever makes a second upsert.
C3_EachCallPersistsOnce ==
  /\ [](\A c \in Calls : call[c].kind = "one" => Len(call[c].persisted) <= 1)
  /\ \A c \in Calls : C3_Accepted(c) ~> (C3_NoEmbeddings(c) \/ C3_PersistedOnce(c))

\* C3 happens: two concurrent calls on distinct documents have both persisted.
C3_Witness ==
  \E c1, c2 \in Calls :
    /\ c1 # c2
    /\ call[c1].kind = "one" /\ C3_PersistedOnce(c1)
    /\ call[c2].kind = "one" /\ C3_PersistedOnce(c2)
    /\ call[c1].docs[1].object_id # call[c2].docs[1].object_id

\* Document i of call c qualifies for an upsert: a registered type, bytes that
\* decode to non-empty content, and embeddings computed by the service.
Qualifies(c, i) ==
  /\ call[c].docs[i].collab_type \in DOMAIN indexer_cache
  /\ call[c].docs[i].encoded_collab = "text"
  /\ call[c].jobs[i].ai.tag = "ok"

\* The upsert call document i of call c is owed: its own object id, the token
\* count the service reported for it and its own content list.
Expected(c, i) ==
  [workspace_id |-> call[c].workspace_id,
   object_id |-> call[c].docs[i].object_id,
   tokens_used |-> call[c].jobs[i].ai.tokens,
   content |-> << Chunk(call[c].docs[i].object_id) >>]

\* The arguments of the k-th upsert call of call c.
Issued(c, k) ==
  LET u == call[c].persisted[k] IN
  [workspace_id |-> u.workspace_id, object_id |-> u.object_id,
   tokens_used |-> u.tokens_used, content |-> u.content]

\* C4: once an index_encoded_collabs batch is finished, its upsert calls are
\* exactly (as a multiset) the calls owed to its qualifying documents: one
\* per qualifying document, none for any other document.
C4_BatchUpsertsExactlyQualifying ==
  \A c \in Calls :
    call[c].kind = "many" /\ call[c].pc = "done" =>
      LET owed == { i \in 1 .. Len(call[c].docs) : Qualifies(c, i) }
          made == 1 .. Len(call[c].persisted) IN
      \A r \in { Expected(c, i) : i \in owed } \cup { Issued(c, k) : k \in made } :
        Cardinality({ i \in owed : Expected(c, i) = r })
          = Cardinality({ k \in made : Issued(c, k) = r })

\* The listed positions of the sweep.
Listed == 1 .. Len(sweep.listing)

\* Whether the sweep has upserted for the document listed at position k.
SweepUpsertedFor(k) ==
  \E n \in 1 .. Len(sweep.persisted) :
    sweep.persisted[n].object_id = sweep.listing[k].object_id

\* C5 as stated: a listed collab of another type than Document is never
\* fetched and never decoded, and when the sweep is over every listed document
\* has had exactly one decode/compute attempt.
C5_EveryEligibleAttemptedOnce ==
  \A k \in Listed :
    IF sweep.listing[k].collab_type = "Document"
    THEN sweep.decodes[k] <= 1 /\ (sweep.pc = "done" => sweep.decodes[k] = 1)
    ELSE sweep.fetches[k] = 0 /\ sweep.decodes[k] = 0

\* C5 amended: a listed collab of another type is never fetched and never
\* decoded; a listed document is fetched at most once and gets at most one
\* decode/compute attempt; once its encoded state has been fetched and the
\* sweep has gone past it, it has had exactly one attempt if Document has a
\* registered indexer and none if the registry is empty.
C5_AttemptsInSweep ==
  \A k \in Listed :
    IF sweep.listing[k].collab_type = "Document"
    THEN /\ sweep.fetches[k] <= 1 /\ sweep.decodes[k] <= 1
         /\ k < sweep.pos =>
              /\ sweep.fetches[k] = 1
              /\ sweep.decodes[k] = IF "Document" \in DOMAIN indexer_cache THEN 1 ELSE 0
    ELSE sweep.fetches[k] = 0 /\ sweep.decodes[k] = 0

\* C5 happens: a sweep over a listing with a document and a collab of another
\* type is over; the document was fetched and decoded once, the other never.
C5_Witness ==
  /\ sweep.pc = "done"
  /\ \E k, n \in Listed :
       /\ sweep.listing[k].collab_type = "Document"
       /\ sweep.fetches[k] = 1 /\ sweep.decodes[k] = 1
       /\ sweep.listing[n].collab_type # "Document"
       /\ sweep.fetches[n] = 0 /\ sweep.decodes[n] = 0

\* C6: the count of the sweep's summary is the number of documents whose
\* embeddings were written during the sweep.
C6_SummaryCountsIndexed ==
  sweep.pc = "done" => sweep.summary = Cardinality(sweep.indexed)

\* C7: a failure on one document does not end the sweep: when the sweep is
\* over, it has gone through every document of the listing.
C7_SweepGoesThroughListing ==
  sweep.pc = "done" => sweep.pos > Len(sweep.listing)

\* The embedding computation of the index_collab call c failed.
ComputationFailed(c) ==
  /\ call[c].kind = "collab"
  /\ call[c].jobs # << >>
  /\ call[c].jobs[1].ai.tag \in {"err", "panic"}

\* C8: an index_collab call whose embedding computation failed does not
\* return success.
C8_FailureIsReturned ==
  \A c \in Calls :
    ComputationFailed(c) /\ call[c].pc = "done" => call[c].ret # "Ok"

\* C9: indexer_for is none for every type outside the registry, and a document
\* of such a type submitted through index_encoded_collab_one,
\* index_encoded_collabs or the sweep is never decoded for the embedding
\* service, never sent to it and never upserted.
C9_UnregisteredTypeIsNoOp ==
  /\ \A t \in CollabTypes : t \notin DOMAIN indexer_cache => IsNone(indexer_for(t))
  /\ \A c \in Calls :
       call[c].kind \in {"one", "many"} =>
         \A i \in 1 .. Len(call[c].docs) :
           call[c].docs[i].collab_type \notin DOMAIN indexer_cache =>
             /\ ~UpsertedFor(c, i)
             /\ call[c].jobs[i].ai.tag = "none"
             /\ call[c].jobs[i].st \in {"Submitted", "Skipped"}
             /\ IsNone(call[c].jobs[i].emb)
  /\ \A k \in Listed :
       sweep.listing[k].collab_type \notin DOMAIN indexer_cache =>
         sweep.decodes[k] = 0 /\ ~SweepUpsertedFor(k)

\* C9 happens: a finished batch held a document of an unregistered type and a
\* document that was upserted.
C9_Witness ==
  \E c \in Calls :
    /\ call[c].kind = "many" /\ call[c].pc = "done"
    /\ \E i \in 1 .. Len(call[c].docs) :
         call[c].docs[i].collab_type \notin DOMAIN indexer_cache
    /\ Len(call[c].persisted) = 1

\* The call c was made with a well-formed workspace id for a collab of a type
\* without a registered indexer.
UnregisteredType(c) ==
  \E i \in 1 .. Len(call[c].docs) :
    call[c].docs[i].collab_type \notin DOMAIN indexer_cache

C11_EmptyContentIsSkipped ==
  /\ \A c \in Calls :
       \A i \in 1 .. Len(call[c].docs) :
         call[c].docs[i].encoded_collab = "blank" =>
           /\ ~UpsertedFor(c, i)
           /\ call[c].jobs[i].ai = NotAsked
           /\ IsNone(call[c].jobs[i].emb)
           /\ call[c].kind # "many" => call[c].pc \notin {"computing", "persisting"}
           /\ call[c].ret \in {"pending", "Ok"}
           /\ call[c].pc = "done" => call[c].ret = "Ok"
  /\ sweep.cur = "blank" =>
       /\ sweep.pc \in {"queued", "await"}
       /\ ~SweepUpsertedFor(sweep.pos)
       /\ sweep.pc = "await" => sweep.channel = Ok(Ok(None))

\* C11 happens: an index_collab call on a live collab without content has
\* returned Ok, having upserted nothing.
C11_Witness ==
  \E c \in Calls :
    /\ call[c].kind = "collab" /\ call[c].pc = "done"
    /\ call[c].docs # << >> /\ call[c].docs[1].encoded_collab = "blank"
    /\ call[c].ret = "Ok" /\ call[c].persisted = << >>

\* C12: a registry built with the indexing flag false has no indexer for any
\* collab type, Document included, and under it no job reaches the embedding
\* service, no worker of the pool is taken and nothing is upserted by any call
\* or by the sweep.
C12_DisabledRegistryIndexesNothing ==
  indexer_cache = IndexerProvider_new(FALSE) =>
    /\ \A t \in CollabTypes : IsNone(indexer_for(t))
    /\ busy = 0
    /\ \A c \in Calls :
         /\ call[c].persisted = << >>
         /\ call[c].pc \notin {"computing", "persisting"}
         /\ \A i \in 1 .. Len(call[c].jobs) :
              call[c].jobs[i].ai = NotAsked /\ IsNone(call[c].jobs[i].emb)
    /\ sweep.persisted = << >>
    /\ sweep.pc \in {"list", "next", "summary", "done"}
    /\ \A k \in Listed : sweep.decodes[k] = 0

\* C12 happens: under a registry built with the flag false, a sweep over a
\* listed document is over, or a call on a document with content has ended.
C12_Witness ==
  /\ indexer_cache = IndexerProvider_new(FALSE)
  /\ \/ sweep.pc = "done" /\ \E k \in Listed : sweep.fetches[k] = 1
     \/ \E c \in Calls :
          /\ call[c].pc = "done" /\ call[c].docs # << >>
          /\ call[c].docs[1].collab_type = "Document"
          /\ call[c].docs[1].encoded_collab \in {"text", "live"}

\* C13: for a well-formed workspace id and a settings lookup that succeeds,
\* can_index_workspace (of the scheduler and of the provider) returns true for
\* a workspace without a settings row, as it does for a row that leaves search
\* indexing enabled, and returns false exactly when a row exists and disables
\* search indexing.
C13_AbsentSettingsMeanEnabled ==
  gate.on # "none" /\ gate.workspace_id \in Workspaces /\ gate.db = "ok" =>
    /\ IsOk(gate.ret)
    /\ IsNone(gate.row) => gate.ret = Ok(TRUE)
    /\ gate.row = Some([disable_search_indexing |-> FALSE]) => gate.ret = Ok(TRUE)
    /\ gate.ret = Ok(FALSE) <=> gate.row = Some([disable_search_indexing |-> TRUE])

\* C13 happens: the scheduler was asked about a workspace without a settings
\* row, while another workspace had opted out, and answered true.
C13_Witness ==
  /\ gate.on = "scheduler" /\ gate.workspace_id = "w1" /\ gate.db = "ok"
  /\ IsNone(gate.row) /\ gate.ret = Ok(TRUE)
  /\ settings["w2"] = Some([disable_search_indexing |-> TRUE])

\* C14: an index_encoded_collab_one, index_encoded_collabs or index_collab
\* call made with a malformed workspace id has returned the validation error
\* in the step of the call itself and has changed nothing: it holds no
\* document and no job, has no read guard, channel or upsert; and a call that
\* got past the validation carries a well-formed workspace id.
C14_MalformedWorkspaceIdIsRejected ==
  \A c \in Calls :
    call[c].kind # "none" =>
      IF call[c].workspace_id \in Workspaces
      THEN call[c].ret # "Err_InvalidUuid"
      ELSE /\ call[c].workspace_id = "none"
           /\ call[c].ret = "Err_InvalidUuid" /\ call[c].pc = "done"
           /\ call[c].docs = << >> /\ call[c].jobs = << >>
           /\ call[c].results = << >> /\ call[c].persisted = << >>
           /\ call[c].channel = Unset
           /\ c \notin readers

\* C14 happens: an index_collab call was rejected for its workspace id.
C14_Witness ==
  \E c \in Calls :
    /\ call[c].kind = "collab" /\ call[c].ret = "Err_InvalidUuid"
    /\ readers = {} /\ busy = 0

\* C15: an index_encoded_collab_one or index_encoded_collabs call with a
\* well-formed workspace id has returned Ok, and its result stays Ok whatever
\* becomes of its jobs; a job that fails with an error value (decode,
\* extraction, embedding or upsert error) never stops the process: the process
\* is only ever aborted by a panic, of an embedding call or of the unwrap in
\* an index_collab closure.
C15_FireAndForgetReturnsOk ==
  /\ \A c \in Calls :
       call[c].kind \in {"one", "many"} /\ call[c].workspace_id \in Workspaces =>
         call[c].ret = "Ok"
  /\ process = "aborted" =>
       \E c \in Calls :
         \/ ComputationFailed(c)
         \/ \E i \in 1 .. Len(call[c].jobs) : call[c].jobs[i].ai.tag = "panic"

\* C15 happens: a fire-and-forget call whose upsert failed is finished and
\* its result is Ok.
C15_Witness ==
  \E c \in Calls :
    /\ call[c].kind \in {"one", "many"} /\ call[c].pc = "done"
    /\ \E k \in 1 .. Len(call[c].persisted) : call[c].persisted[k].result = "err"
    /\ call[c].ret = "Ok" /\ process = "running"

\* C16: in a finished index_encoded_collabs batch none of whose jobs
\* panicked, every qualifying document has its own upsert call, whatever
\* error values the other documents of the batch met (bytes that do not
\* decode, content that cannot be extracted, an error of the embedding service,
\* a failed upsert earlier in the loop).
C16_BatchFailuresAreIsolated ==
  \A c \in Calls :
    /\ call[c].kind = "many" /\ call[c].pc = "done"
    /\ \A i \in 1 .. Len(call[c].jobs) : call[c].jobs[i].st # "Panicked"
    => \A i \in 1 .. Len(call[c].docs) :
         Qualifies(c, i) =>
           Cardinality({ k \in 1 .. Len(call[c].persisted) :
                           Issued(c, k) = Expected(c, i) })
             = Cardinality({ n \in 1 .. Len(call[c].docs) :
                               Qualifies(c, n) /\ Expected(c, n) = Expected(c, i) })

\* C16 happens: in a finished batch the upsert of the first document failed
\* and the second document was upserted after it.
C16_Witness ==
  \E c \in Calls :
    /\ call[c].kind = "many" /\ call[c].pc = "done"
    /\ Len(call[c].persisted) = 2
    /\ call[c].persisted[1].result = "err"
    /\ call[c].persisted[2].result = "ok"
    /\ call[c].persisted[1].object_id # call[c].persisted[2].object_id

\* The embedding computations executing now: the closures of
\* index_encoded_collab_one and index_collab calls inside embed, the items of
\* batches inside embed, and the sweep's closure inside embed.
Computing ==
  Cardinality({ c \in Calls : call[c].kind \in {"one", "collab"}
                              /\ call[c].pc = "computing" })
  + Cardinality({ p \in Calls \X (1 .. MaxBatch) :
                    /\ call[p[1]].kind = "many"
                    /\ p[2] <= Len(call[p[1]].jobs)
                    /\ call[p[1]].jobs[p[2]].st = "Computing" })
  + (IF sweep.pc = "computing" THEN 1 ELSE 0)

\* C17: at every moment the embedding computations executing concurrently are
\* at most as many as the pool `threads` has workers.
C17_ComputationsWithinPool == Computing <= NumThread

\* C18: an index_encoded_collab_one or index_encoded_collabs call has returned
\* in the step of the call, before any of its jobs has started; an
\* index_collab call that submitted its closure has not returned while the
\* closure is queued or computing or the channel is unresolved, and returns only
\* with the channel resolved to a value or to a dropped sender.
C18_OnlyIndexCollabWaits ==
  \A c \in Calls :
    /\ call[c].kind \in {"one", "many"} => call[c].ret # "pending"
    /\ call[c].kind = "collab" =>
         /\ call[c].pc \in {"lock", "locked", "queued", "computing", "await",
                            "persisting"} => call[c].ret = "pending"
         /\ call[c].pc \in {"queued", "computing"} => call[c].channel = Unset
         /\ call[c].ret \in {"Ok", "Err_upsert"} => call[c].channel # Unset

\* C18 happens: an index_collab call has returned after its channel resolved
\* to a value.
C18_Witness ==
  \E c \in Calls :
    /\ call[c].kind = "collab" /\ call[c].pc = "done"
    /\ call[c].ret = "Ok" /\ IsOk(call[c].channel)

\* C19: an index_collab call whose upsert failed has returned that error, one
\* whose upsert succeeded has returned Ok, and no call returns an upsert error
\* but an index_collab call whose upsert failed: index_encoded_collab_one and
\* index_encoded_collabs never do.
C19_UpsertErrorOnlyFromIndexCollab ==
  \A c \in Calls :
    /\ call[c].kind = "collab" /\ call[c].persisted # << >> =>
         /\ Len(call[c].persisted) = 1 /\ call[c].pc = "done"
         /\ call[c].ret = IF call[c].persisted[1].result = "err"
                          THEN "Err_upsert" ELSE "Ok"
    /\ call[c].ret = "Err_upsert" =>
         /\ call[c].kind = "collab"
         /\ call[c].persisted # << >>
         /\ call[c].persisted[1].result = "err"

\* C19 happens: an index_collab call has returned the error of its upsert.
C19_Witness ==
  \E c \in Calls :
    /\ call[c].kind = "collab" /\ call[c].pc = "done"
    /\ call[c].ret = "Err_upsert"
    /\ call[c].persisted # << >> /\ call[c].persisted[1].result = "err"

\* The workspace w has a settings row that disables search indexing.
OptedOut(w) == settings[w] = Some([disable_search_indexing |-> TRUE])

\* C20: while the settings of a workspace disable search indexing, no call
\* for a document of that workspace is computing embeddings or about to
\* upsert them.
C20_OptOutIsRespected ==
  \A c \in Calls :
    call[c].workspace_id \in Workspaces /\ OptedOut(call[c].workspace_id) =>
      call[c].pc \notin {"computing", "persisting"}

\* C21: in an index_encoded_collabs batch no upsert is made while an item of
\* the batch is still to run or running, and the upserts are made one after
\* the other by the one loop of the batch, in the order of the collected
\* results: the k-th upsert carries the k-th collected result, and the results
\* still to be upserted are the rest of the collected vector.
C21_BatchUpsertsAfterComputeInOrder ==
  \A c \in Calls :
    call[c].kind = "many" /\ (call[c].pc = "persisting" \/ call[c].persisted # << >>) =>
      LET collected == collect(call[c].jobs)
          made == Len(call[c].persisted) IN
      /\ \A i \in 1 .. Len(call[c].jobs) :
           call[c].jobs[i].st \notin {"Submitted", "Computing"}
      /\ made + Len(call[c].results) = Len(collected)
      /\ \A k \in 1 .. made :
           /\ call[c].persisted[k].content = collected[k].content
           /\ call[c].persisted[k].tokens_used = collected[k].tokens_used
      /\ \A k \in 1 .. Len(call[c].results) :
           call[c].results[k] = collected[made + k]

\* C21 happens: a batch of two documents is between its two upserts.
C21_Witness ==
  \E c \in Calls :
    /\ call[c].kind = "many" /\ call[c].pc = "persisting"
    /\ Len(call[c].persisted) = 1 /\ Len(call[c].results) = 1
    /\ call[c].persisted[1].object_id = call[c].docs[1].object_id
    /\ call[c].docs[1].object_id # call[c].docs[2].object_id

C23_JobEndsInOneTerminalState ==
  \A c \in Calls :
    call[c].kind = "one" /\ call[c].jobs # << >> /\ call[c].pc \in {"persisting", "done"} =>
      /\ call[c].jobs[1].st \in {"Completed", "Skipped", "Failed"}
      /\ call[c].jobs[1].st # "Completed" => call[c].persisted = << >>

\* C24: every upsert made by a call of index_encoded_collab_one,
\* index_encoded_collabs or index_collab, and every upsert made by the sweep,
\* carries at least one content chunk.
C24_UpsertCarriesContent ==
  /\ \A c \in Calls : \A k \in 1 .. Len(call[c].persisted) :
       call[c].persisted[k].content # << >>
  /\ \A k \in 1 .. Len(sweep.persisted) :
       sweep.persisted[k].content # << >>

\* C24 happens: a call given a document with no indexable text is over, or a
\* batch holding such a document has upserted another one.
C24_Witness ==
  \E c \in Calls :
    /\ call[c].pc = "done" /\ call[c].docs # << >>
    /\ \E i \in 1 .. Len(call[c].docs) :
         /\ call[c].docs[i].collab_type = "Document"
         /\ call[c].docs[i].encoded_collab = "blank"
    /\ call[c].kind = "many" => call[c].persisted # << >>

\* C25: an index_encoded_collabs batch one of whose items panicked on the
\* pool never upserts a document, and once its install has returned it has
\* logged the failure of the batch exactly once; a batch none of whose items
\* panicked never logs that failure, whatever its documents did.
C25_PoolFailureLoggedOnceNothingPersisted ==
  \A c \in Calls :
    call[c].kind = "many" =>
      IF \E i \in 1 .. Len(call[c].jobs) : call[c].jobs[i].st = "Panicked"
      THEN /\ call[c].persisted = << >>
           /\ call[c].pc # "persisting"
           /\ call[c].pc = "done" =>
                call[c].logged = << "Failed to process batch indexing" >>
      ELSE \A k \in 1 .. Len(call[c].logged) :
             call[c].logged[k] # "Failed to process batch indexing"

\* C25 happens: a batch is over in which one item panicked and another one
\* had its embeddings.
C25_Witness ==
  \E c \in Calls :
    /\ call[c].kind = "many" /\ call[c].pc = "done"
    /\ \E i, j \in 1 .. Len(call[c].jobs) :
         /\ call[c].jobs[i].st = "Panicked"
         /\ call[c].jobs[j].st = "Completed"

\* Whether the sweep is between the fetch of a document and the end of its upsert.
SweepJobInFlight == sweep.pc \in {"queued", "computing", "await", "persisting"}

\* C26: the sweep handles one document at a time. No document after the current
\* one has been fetched or decoded, no document is decoded twice, every upsert
\* made belongs to a document before the current one, and a result is in the
\* channel only for the current document; and while a sweep job is in flight a
\* free caller slot can enter each entry point and the closure of an accepted
\* index_encoded_collab_one call can start.
C26_SweepOneAtATime ==
  /\ \A q \in 1 .. Len(sweep.listing) :
       /\ q > sweep.pos => sweep.fetches[q] = 0 /\ sweep.decodes[q] = 0
       /\ sweep.decodes[q] <= 1 /\ sweep.decodes[q] <= sweep.fetches[q]
  /\ \A k \in 1 .. Len(sweep.persisted) :
       \E q \in 1 .. Len(sweep.listing) :
         q < sweep.pos /\ sweep.persisted[k].object_id = sweep.listing[q].object_id
  /\ sweep.channel # Unset => sweep.pc \in {"await", "persisting"}
  /\ SweepJobInFlight /\ process = "running" =>
       \A c \in {1} :
         /\ call[c].pc = "idle" =>
              /\ ENABLED index_encoded_collab_one(c, "w1", IndexedCollab("o1", "Document", "text"))
              /\ ENABLED index_encoded_collabs(c, "w1",
                           << IndexedCollab("o1", "Document", "text") >>)
              /\ ENABLED index_collab(c, "w1", "o1", "Document")
         /\ call[c].kind = "one" /\ call[c].pc = "queued" => ENABLED one_job_start(c)

\* C26 happens: the sweep waits for the embeddings of its second document, the
\* first one upserted, while the closure of a call waits to start.
C26_Witness ==
  /\ sweep.pc = "computing" /\ sweep.pos = 2 /\ Len(sweep.persisted) = 1
  /\ call[1].kind = "one" /\ call[1].pc = "queued"

\* C27: the sweep task exists from the construction on and is started once:
\* it is at its first step only as the constructor spawned it, with no trace of
\* an earlier run. Until the sweep is over, and before it has made any step, a
\* free caller slot can enter each entry point, and the closure of an accepted
\* call can start.
C27_SweepSpawnedOnceCallsServed ==
  /\ sweep.pc = "list" => sweep = NewSweep
  /\ sweep.pc # "done" /\ process = "running" =>
       \A c \in {1} :
         /\ call[c].pc = "idle" =>
              /\ ENABLED index_encoded_collab_one(c, "w1", IndexedCollab("o1", "Document", "text"))
              /\ ENABLED index_encoded_collabs(c, "w1",
                           << IndexedCollab("o1", "Document", "text") >>)
              /\ ENABLED index_collab(c, "w1", "o1", "Document")
         /\ call[c].kind = "one" /\ call[c].pc = "queued" => ENABLED one_job_start(c)
         /\ call[c].kind = "collab" /\ call[c].pc = "lock" /\ ~writer =>
              ENABLED collab_read(c)

\* C27 happens: a call was accepted, computed and upserted while the sweep
\* spawned by the constructor had not made its first step.
C27_Witness ==
  /\ sweep = NewSweep
  /\ \E c \in Calls :
       call[c].pc = "done" /\ call[c].ret = "Ok" /\ call[c].persisted # << >>

\* C28: the sweep writes its summary once, at its end, and only when every
\* listed document the sweep is to index has been fetched, also when a fetch or
\* the listing itself failed.
C28_SummaryAfterLastDocument ==
  /\ sweep.summary # -1 <=> sweep.pc = "done"
  /\ sweep.pc \in {"summary", "done"} =>
       \A q \in 1 .. Len(sweep.listing) :
         eligible(sweep.listing[q].collab_type) => sweep.fetches[q] >= 1

\* C29: whatever the settings store holds, IndexerScheduler::can_index_workspace
\* and IndexerProvider::can_index_workspace return the same result for the same
\* workspace id string and the same answer of storage, value or error; an id
\* that does not parse and a storage failure are errors from both; and the
\* result of the last call made is the one the other component would have given.
C29_GatesAgree ==
  /\ \A w \in Workspaces \cup WorkspaceIdStrings, db \in {"ok", "err"} :
       /\ can_index_workspace(w, db) = IndexerProvider_can_index_workspace(w, db)
       /\ IsErr(Uuid_parse_str(w)) \/ db = "err" => IsErr(can_index_workspace(w, db))
  /\ gate.on = "scheduler" /\ gate.workspace_id \in Workspaces
       /\ settings[gate.workspace_id] = gate.row =>
       gate.ret = IndexerProvider_can_index_workspace(gate.workspace_id, gate.db)
  /\ gate.on = "provider" /\ gate.workspace_id \in Workspaces
       /\ settings[gate.workspace_id] = gate.row =>
       gate.ret = can_index_workspace(gate.workspace_id, gate.db)

\* C29 happens: the scheduler was asked about a workspace that has opted out
\* and answered as the provider does, and storage can fail.
C29_Witness ==
  /\ gate.on = "scheduler" /\ gate.workspace_id \in Workspaces
  /\ gate.row = Some([disable_search_indexing |-> TRUE])
  /\ settings[gate.workspace_id] = gate.row
  /\ gate.ret = Ok(FALSE)
  /\ IsErr(IndexerProvider_can_index_workspace(gate.workspace_id, "err"))

\* C30: the registry is the one IndexerProvider::new built, with the document
\* indexer or empty, so that indexer_for finds an indexer for no type but
\* Document, and no step of the scheduler, of the sweep, of the gate or of the
\* settings store changes it.
C30_RegistryIsImmutable ==
  /\ [](/\ indexer_cache \in {IndexerProvider_new(TRUE), IndexerProvider_new(FALSE)}
        /\ \A t \in CollabTypes \ {"Document"} : IsNone(indexer_for(t)))
  /\ [][indexer_cache' = indexer_cache]_vars

\* C30 happens: with the flag enabled, a call has been indexed and upserted, a
\* workspace has opted out and the registry was asked about it, and the
\* document indexer is still the one found for Document.
C30_Witness ==
  /\ indexer_for("Document") = Some("DocumentIndexer")
  /\ IsNone(indexer_for("Folder"))
  /\ \E c \in Calls : call[c].pc = "done" /\ call[c].persisted # << >>
  /\ \E w \in Workspaces : settings[w] = Some([disable_search_indexing |-> TRUE])
  /\ gate.on = "provider" /\ gate.ret = Ok(FALSE)

\* C31: an index_collab call that has returned, with Ok or with any error,
\* holds no read guard of the live collab; a call that returned the error of
\* the workspace id or of the indexer lookup never read the collab; and a read
\* guard is only ever granted to a call that passed both and waits at
\* collab.read().
C31_NoGuardAfterReturn ==
  /\ [](\A c \in Calls :
          call[c].kind = "collab" /\ call[c].pc = "done" =>
            /\ c \notin readers
            /\ call[c].ret \in {"Err_InvalidUuid", "Err_NoIndexer"} =>
                 /\ call[c].jobs = << >>
                 /\ call[c].docs = << >> \/ call[c].docs[1].encoded_collab = "live")
  /\ [][\A c \in Calls :
          c \in readers' /\ c \notin readers =>
            /\ call[c].kind = "collab" /\ call[c].pc = "lock"
            /\ call[c].ret = "pending"]_vars

\* C31 happens: a call has returned the extraction error, which it met with
\* the guard in hand, and no read guard is held any more.
C31_Witness ==
  /\ \E c \in Calls :
       /\ call[c].kind = "collab" /\ call[c].pc = "done"
       /\ call[c].ret = "Err_extract"
       /\ c \notin readers
  /\ readers = {}

\* C32: an index_collab call that passed validation and has not returned yet
\* can still return: the process that is to resolve its channel and resume
\* its task is running.
C32_PendingCallCanReturn ==
  \A c \in Calls :
    call[c].kind = "collab" /\ call[c].pc \notin {"idle", "done"} =>
      process = "running"

====
